---- MODULE Spec2Model ----
(***************************************************************************)
(* A model of the memory skill's synchronisation, retrieval and ingestion  *)
(* scripts:                                                                *)
(*   scripts/memory_sync.py    sync_from_markdown, export_to_markdown      *)
(*   scripts/hybrid_search.py  hybrid_search, keyword_only_search          *)
(*   scripts/memory_client.py  MemoryClient.store                          *)
(*   scripts/conversation_ingest.py  calculate_importance, ingest_turn     *)
(*                                                                         *)
(* Text is modelled as a sequence of atoms.  A markdown document is a      *)
(* sequence of lines; a section body is the sequence of its text lines,    *)
(* each followed by a newline.  Every atom has a character length, so      *)
(* len() and strip() are computed, not assumed.                            *)
(***************************************************************************)
EXTENDS Integers, Sequences, FiniteSets, TLC

\* ------------------------------------------------------------------ bounds
MaxLines == 3   \* lines of a markdown document
MaxRuns  == 2   \* import runs started in one behaviour
MaxEdits == 1   \* edits of the markdown file in one behaviour
MaxLimit == 2   \* the limit argument of a search
MaxCands == 3   \* candidates the store has for a similarity search
MaxCorpus == 101  \* records of the agent in the store
MaxRecords == 2   \* records in each of the two result sets of an export
MaxWords == 2     \* words of a query or of a candidate that is scored alone
MaxTurnWords == 3 \* words of a conversation turn

\* ------------------------------------------------------------------ text
\* The lines of a markdown file: a title, a section header, a text line of
\* 30 characters, a text line of 12 characters and a blank line.  The
\* documents of the model are made of the first four.
TitleLine  == "# T"
HeaderLine == "## A"
LongLine   == "x"
ShortLine  == "s"
BlankLine  == ""

Lines == {HeaderLine, LongLine, ShortLine}

\* len(line) for the text lines.
LineLen(line) ==
    CASE line = LongLine  -> 30
      [] line = ShortLine -> 12
      [] OTHER            -> 0

\* line.startswith("## ")
IsHeader(line) == line = HeaderLine
\* line.startswith("# ")
IsTitle(line) == line = TitleLine
\* line[3:].strip()
HeaderText(line) == IF line = HeaderLine THEN "A" ELSE ""
\* header.lower().replace(" ", "-")
EntityOf(header) == IF header = "A" THEN "a" ELSE header

SeqsUpTo(S, n) == UNION {[1..k -> S] : k \in 0..n}

\* The documents: a title line, then up to MaxLines lines.
Docs == {<<TitleLine>> \o body : body \in SeqsUpTo(Lines, MaxLines)}

RECURSIVE DropBlankHead(_)
DropBlankHead(s) ==
    IF s # <<>> /\ Head(s) = BlankLine THEN DropBlankHead(Tail(s)) ELSE s

RECURSIVE DropBlankTail(_)
DropBlankTail(s) ==
    IF s # <<>> /\ s[Len(s)] = BlankLine
    THEN DropBlankTail(SubSeq(s, 1, Len(s) - 1))
    ELSE s

\* str.strip() of a body: the leading and trailing whitespace goes, that is
\* the blank lines at either end and the newline after the last line.
Strip(content) == DropBlankTail(DropBlankHead(content))

RECURSIVE SumLen(_)
SumLen(s) == IF s = <<>> THEN 0 ELSE LineLen(Head(s)) + SumLen(Tail(s))

\* len(text) of a stripped body: its lines and the newlines between them.
TextLen(text) == IF text = <<>> THEN 0 ELSE SumLen(text) + (Len(text) - 1)

\* ------------------------------------------------------------------ hash
AtomCode(a) ==
    CASE a = LongLine  -> 1
      [] a = ShortLine -> 2
      [] a = BlankLine -> 3
      [] a = "A"       -> 4
      [] OTHER         -> 5

RECURSIVE HashFold(_, _)
HashFold(text, acc) ==
    IF text = <<>> THEN acc
    ELSE HashFold(Tail(text), acc * 6 + AtomCode(Head(text)))

\* hashlib.md5(text.encode()).hexdigest()[:12]: a deterministic digest of the
\* characters of the text, here a positional code of its atoms (distinct
\* texts of the model have distinct digests, as md5 has for them).
content_hash(text) == HashFold(text, 0)

\* ------------------------------------------------------------------ parse
NonBlank(section) == Strip(section.content) # <<>>

RECURSIVE ParseLines(_, _, _)
ParseLines(lines, current, sections) ==
    IF lines = <<>>
    THEN IF NonBlank(current) THEN Append(sections, current) ELSE sections
    ELSE LET line == Head(lines) IN
         IF IsHeader(line)
         THEN ParseLines(Tail(lines),
                         [header |-> HeaderText(line), content |-> <<>>],
                         IF NonBlank(current) THEN Append(sections, current)
                                              ELSE sections)
         ELSE IF ~IsTitle(line)
         THEN ParseLines(Tail(lines),
                         [current EXCEPT !.content = Append(@, line)],
                         sections)
         ELSE ParseLines(Tail(lines), current, sections)

\* The sections of a document, in order.
ParseSections(content) ==
    ParseLines(content, [header |-> "", content |-> <<>>], <<>>)

\* ------------------------------------------------------------------ state
\* The processes that run imports; "p1" alone runs in the sequential
\* specification.
Procs == {"p1", "p2"}

VARIABLES
    doc,          \* the markdown file: a sequence of lines
    docVersion,   \* how many times the markdown file has been edited
    ledgerFile,   \* the sync state file: [st, data]
    points,       \* the records the store holds, in order of creation
    runLog,       \* one entry per import run started
    pc,           \* where each import run is
    rid,          \* the run's index in runLog
    usePath,      \* whether the run was given a sync_state_path
    sync_state,   \* the run's in-memory ledger
    sections,     \* the run's parsed sections
    idx,          \* the section the run's loop is at
    stats,        \* the run's counters
    calls,        \* the store calls the run has made
    err           \* the exception that ended the run, if one did

importVars == <<doc, docVersion, ledgerFile, points, runLog, pc, rid, usePath,
                sync_state, sections, idx, stats, calls, err>>

VARIABLES
    h_pc,           \* where the hybrid search is
    h_query,        \* its query
    h_limit,        \* its limit
    h_weights,      \* <<dense_weight, keyword_weight>>, in tenths
    h_asked,        \* the limit it gave client.search
    dense_results,  \* what client.search returned
    h_results       \* what hybrid_search returns

hybridVars == <<h_pc, h_query, h_limit, h_weights, h_asked, dense_results,
                h_results>>

VARIABLES
    k_pc,       \* where the keyword-only search is
    k_query,    \* its query
    k_limit,    \* its limit
    corpus,     \* the agent's records in the store, in the store's order
    k_page,     \* the points the scroll request returned
    k_results   \* what keyword_only_search returns

keywordVars == <<k_pc, k_query, k_limit, corpus, k_page, k_results>>

VARIABLES
    x_pc,        \* where the export is
    semantic,    \* what client.search returned
    episodic,    \* what client.get_recent returned
    organized,   \* the two groups
    x_document,  \* the sections written to the output file
    x_count      \* what export_to_markdown returns

exportVars == <<x_pc, semantic, episodic, organized, x_document, x_count>>

VARIABLES
    s_pc,       \* where the scoring of one candidate is
    s_query,    \* the query
    s_content,  \* the candidate's content
    s_hybrid,   \* the keyword_score hybrid_search gives the candidate
    s_keyword   \* the entries keyword_only_search makes for the candidate

scoreVars == <<s_pc, s_query, s_content, s_hybrid, s_keyword>>

VARIABLES
    t_pc,          \* where ingest_turn is
    t_content,     \* its content argument
    t_role,        \* its role argument
    t_importance,  \* what calculate_importance returned, in hundredths
    t_calls,       \* the store calls it has made
    t_store,       \* the records the store holds
    t_result       \* what ingest_turn returns

ingestVars == <<t_pc, t_content, t_role, t_importance, t_calls, t_store,
                t_result>>

vars == <<importVars, hybridVars, keywordVars, exportVars, scoreVars,
          ingestVars>>

\* What an operation leaves alone: the state of the other operations.
notImport  == <<hybridVars, keywordVars, exportVars, scoreVars, ingestVars>>
notHybrid  == <<importVars, keywordVars, exportVars, scoreVars, ingestVars>>
notKeyword == <<importVars, hybridVars, exportVars, scoreVars, ingestVars>>
notExport  == <<importVars, hybridVars, keywordVars, scoreVars, ingestVars>>
notScore   == <<importVars, hybridVars, keywordVars, exportVars, ingestVars>>
notIngest  == <<importVars, hybridVars, keywordVars, exportVars, scoreVars>>

EmptyLedger == [h \in {} |-> [header |-> "", synced_at |-> 0]]
NoStats == [new |-> 0, skipped |-> 0, updated |-> 0]

InitImport ==
    /\ doc \in Docs
    /\ docVersion = 0
    /\ ledgerFile = [st |-> "absent", data |-> EmptyLedger]
    /\ points = <<>>
    /\ runLog = <<>>
    /\ pc = [p \in Procs |-> "idle"]
    /\ rid = [p \in Procs |-> 0]
    /\ usePath = [p \in Procs |-> FALSE]
    /\ sync_state = [p \in Procs |-> EmptyLedger]
    /\ sections = [p \in Procs |-> <<>>]
    /\ idx = [p \in Procs |-> 0]
    /\ stats = [p \in Procs |-> NoStats]
    /\ calls = [p \in Procs |-> 0]
    /\ err = [p \in Procs |-> "none"]

\* ------------------------------------------------------------------ store
\* What one call of MemoryClient.store can come to: the record is persisted;
\* the embedding request raises; the upsert request raises before the store
\* has the record; the store answers the upsert with an error status, which
\* store() reads as JSON without looking at it.
StoreOutcomes == {"stored", "embed_error", "put_error", "put_rejected"}
Persisted(outcome) == outcome = "stored"
Raises(outcome) == outcome \in {"embed_error", "put_error"}

\* datetime.utcnow(), as coarse as the import runs: the number of runs started.
Now == Len(runLog)

\* The arguments of the store call for a section; cid and run are not fields
\* of the record: they remember the section's content identity and the run
\* that made the call.
NewPoint(section, text, run) ==
    [content     |-> IF section.header # "" THEN <<section.header>> \o text
                                             ELSE text,
     memory_type |-> "semantic",
     importance  |-> 7,
     entities    |-> IF section.header # "" THEN <<EntityOf(section.header)>>
                                             ELSE <<>>,
     cid         |-> content_hash(text),
     run         |-> run]

\* ------------------------------------------------------------------ import
\* A load that forgets the file.
LoadStateFresh(withPath, file) == [ok |-> TRUE, state |-> EmptyLedger]

\* A load that reads the file of the last run when no path is given.
LoadStateAnyPath(withPath, file) ==
    IF file.st # "absent"
    THEN [ok |-> file.st = "complete", state |-> file.data]
    ELSE [ok |-> TRUE, state |-> EmptyLedger]

\* Load sync state: an existing file is parsed by json.load, which raises on
\* a file that does not hold a complete JSON document.
LoadState(withPath, file) ==
    IF withPath /\ file.st # "absent"
    THEN [ok |-> file.st = "complete", state |-> file.data]
    ELSE [ok |-> TRUE, state |-> EmptyLedger]

\* A membership test that never finds the key.
AlreadySyncedNever(h, state) == FALSE

\* h in sync_state
AlreadySynced(h, state) == h \in DOMAIN state

\* sync_state = {h: ...}: the new entry replaces the ledger.
RecordedAlone(state, h, header, now) ==
    [k \in {h} |-> [header |-> header, synced_at |-> now]]

\* sync_state[h] = {"header": ..., "synced_at": ...}
Recorded(state, h, header, now) ==
    [k \in DOMAIN state \cup {h} |->
        IF k = h THEN [header |-> header, synced_at |-> now] ELSE state[k]]

SetStatus(log, r, status, keys, counted) ==
    [log EXCEPT ![r] = [@ EXCEPT !.status = status, !.keys = keys,
                                 !.stats = counted]]

\* Another run that was given the ledger path is between its load and the
\* end of its save.
OtherRunOnPath(p) ==
    \E q \in Procs \ {p} : usePath[q] /\ pc[q] \in {"loop", "dump"}

StartImport(p, withPath) ==
    /\ pc[p] = "idle"
    /\ Len(runLog) < MaxRuns
    /\ LET loaded == LoadState(withPath, ledgerFile)
           r == Len(runLog) + 1
       IN  /\ runLog' = Append(runLog,
                   [version |-> docVersion, path |-> withPath,
                    status |-> IF loaded.ok THEN "running" ELSE "failed",
                    keys |-> {},
                    overlap |-> withPath /\ OtherRunOnPath(p),
                    before |-> IF withPath THEN ledgerFile.data
                                           ELSE EmptyLedger,
                    stats |-> NoStats])
           /\ rid' = [rid EXCEPT ![p] = r]
           /\ usePath' = [usePath EXCEPT ![p] = withPath]
           /\ stats' = [stats EXCEPT ![p] = NoStats]
           /\ calls' = [calls EXCEPT ![p] = 0]
           /\ IF loaded.ok
              THEN /\ sync_state' = [sync_state EXCEPT ![p] = loaded.state]
                   /\ sections' = [sections EXCEPT ![p] = ParseSections(doc)]
                   /\ idx' = [idx EXCEPT ![p] = 1]
                   /\ pc' = [pc EXCEPT ![p] = "loop"]
                   /\ err' = [err EXCEPT ![p] = "none"]
              ELSE /\ pc' = [pc EXCEPT ![p] = "failed"]
                   /\ err' = [err EXCEPT ![p] = "JSONDecodeError"]
                   /\ UNCHANGED <<sync_state, sections, idx>>
    /\ UNCHANGED <<doc, docVersion, ledgerFile, points>>
    /\ UNCHANGED notImport

InLoop(p) == pc[p] = "loop" /\ idx[p] <= Len(sections[p])
Section(p) == sections[p][idx[p]]

\* The text with the header in front of it.
TextWithHeader(p) == <<Section(p).header>> \o Strip(Section(p).content)

\* text = section["content"].strip()
Text(p) == Strip(Section(p).content)

\* A short section that is counted as skipped.
SkipShortCounted(p) ==
    /\ InLoop(p)
    /\ TextLen(Text(p)) < 30
    /\ stats' = [stats EXCEPT ![p].skipped = @ + 1]
    /\ idx' = [idx EXCEPT ![p] = @ + 1]
    /\ UNCHANGED <<doc, docVersion, ledgerFile, points, runLog, pc, rid,
                   usePath, sync_state, sections, calls, err>>
    /\ UNCHANGED notImport

\* if len(text) < 30: continue
SkipShort(p) ==
    /\ InLoop(p)
    /\ TextLen(Text(p)) < 30
    /\ idx' = [idx EXCEPT ![p] = @ + 1]
    /\ UNCHANGED <<doc, docVersion, ledgerFile, points, runLog, pc, rid,
                   usePath, sync_state, sections, stats, calls, err>>
    /\ UNCHANGED notImport

\* if h in sync_state: stats["skipped"] += 1; continue
SkipSynced(p) ==
    /\ InLoop(p)
    /\ TextLen(Text(p)) >= 30
    /\ AlreadySynced(content_hash(Text(p)), sync_state[p])
    /\ stats' = [stats EXCEPT ![p].skipped = @ + 1]
    /\ idx' = [idx EXCEPT ![p] = @ + 1]
    /\ UNCHANGED <<doc, docVersion, ledgerFile, points, runLog, pc, rid,
                   usePath, sync_state, sections, calls, err>>
    /\ UNCHANGED notImport

\* await client.store(...); sync_state[h] = ...; stats["new"] += 1
StoreSection(p) ==
    /\ InLoop(p)
    /\ TextLen(Text(p)) >= 30
    /\ ~AlreadySynced(content_hash(Text(p)), sync_state[p])
    /\ \E outcome \in StoreOutcomes :
        /\ calls' = [calls EXCEPT ![p] = @ + 1]
        /\ points' = IF Persisted(outcome)
                     THEN Append(points, NewPoint(Section(p), Text(p), rid[p]))
                     ELSE points
        /\ IF Raises(outcome)
           THEN /\ pc' = [pc EXCEPT ![p] = "failed"]
                /\ err' = [err EXCEPT ![p] = "StoreError"]
                /\ runLog' = SetStatus(runLog, rid[p], "failed", {}, NoStats)
                /\ UNCHANGED <<sync_state, stats, idx>>
           ELSE /\ sync_state' = [sync_state EXCEPT ![p] =
                       Recorded(@, content_hash(Text(p)), Section(p).header, Now)]
                /\ stats' = [stats EXCEPT ![p].new = @ + 1]
                /\ idx' = [idx EXCEPT ![p] = @ + 1]
                /\ UNCHANGED <<pc, err, runLog>>
    /\ UNCHANGED <<doc, docVersion, ledgerFile, rid, usePath, sections>>
    /\ UNCHANGED notImport

LoopDone(p) == pc[p] = "loop" /\ idx[p] > Len(sections[p])

\* open(sync_state_path, "w"): the file is truncated before anything is
\* written to it.
SaveOpen(p) ==
    /\ LoopDone(p)
    /\ usePath[p]
    /\ ledgerFile' = [st |-> "partial", data |-> EmptyLedger]
    /\ pc' = [pc EXCEPT ![p] = "dump"]
    /\ UNCHANGED <<doc, docVersion, points, runLog, rid, usePath, sync_state,
                   sections, idx, stats, calls, err>>
    /\ UNCHANGED notImport

\* json.dump(sync_state, f, indent=2) and the close of the file
SaveDump(p) ==
    /\ pc[p] = "dump"
    /\ ledgerFile' = [st |-> "complete", data |-> sync_state[p]]
    /\ pc' = [pc EXCEPT ![p] = "done"]
    /\ runLog' = SetStatus(runLog, rid[p], "done", DOMAIN sync_state[p],
                         stats[p])
    /\ UNCHANGED <<doc, docVersion, points, rid, usePath, sync_state,
                   sections, idx, stats, calls, err>>
    /\ UNCHANGED notImport

\* if sync_state_path: is false: nothing is saved
SkipSave(p) ==
    /\ LoopDone(p)
    /\ ~usePath[p]
    /\ pc' = [pc EXCEPT ![p] = "done"]
    /\ runLog' = SetStatus(runLog, rid[p], "done", DOMAIN sync_state[p],
                         stats[p])
    /\ UNCHANGED <<doc, docVersion, ledgerFile, points, rid, usePath,
                   sync_state, sections, idx, stats, calls, err>>
    /\ UNCHANGED notImport

\* The process is killed, or the coroutine cancelled, between two steps.
Kill(p) ==
    /\ pc[p] \in {"loop", "dump"}
    /\ pc' = [pc EXCEPT ![p] = "failed"]
    /\ err' = [err EXCEPT ![p] = "killed"]
    /\ runLog' = SetStatus(runLog, rid[p], "failed", {}, NoStats)
    /\ UNCHANGED <<doc, docVersion, ledgerFile, points, rid, usePath,
                   sync_state, sections, idx, stats, calls>>
    /\ UNCHANGED notImport

\* return stats, or the exception reaches the caller: the run is over.
Return(p) ==
    /\ pc[p] \in {"done", "failed"}
    /\ pc' = [pc EXCEPT ![p] = "idle"]
    /\ rid' = [rid EXCEPT ![p] = 0]
    /\ usePath' = [usePath EXCEPT ![p] = FALSE]
    /\ sync_state' = [sync_state EXCEPT ![p] = EmptyLedger]
    /\ sections' = [sections EXCEPT ![p] = <<>>]
    /\ idx' = [idx EXCEPT ![p] = 0]
    /\ stats' = [stats EXCEPT ![p] = NoStats]
    /\ calls' = [calls EXCEPT ![p] = 0]
    /\ err' = [err EXCEPT ![p] = "none"]
    /\ UNCHANGED <<doc, docVersion, ledgerFile, points, runLog>>
    /\ UNCHANGED notImport

\* What one edit makes of the markdown file: a line is appended, or the last
\* line is removed.
Edits(d) ==
    {e \in Docs : \/ \E line \in Lines : e = Append(d, line)
                  \/ /\ Len(d) > 1
                     /\ e = SubSeq(d, 1, Len(d) - 1)}

\* Somebody edits the markdown file.  A run reads the file once, when it
\* starts, so an edit during a run is an edit after it; an edit before the
\* first run gives one of the initial documents.
EditDocument ==
    /\ docVersion < MaxEdits
    /\ 0 < Len(runLog) /\ Len(runLog) < MaxRuns
    /\ \A p \in Procs : pc[p] = "idle"
    /\ \E d \in Edits(doc) : doc' = d
    /\ docVersion' = docVersion + 1
    /\ UNCHANGED <<ledgerFile, points, runLog, pc, rid, usePath, sync_state,
                   sections, idx, stats, calls, err>>
    /\ UNCHANGED notImport

ImportStep(p) ==
    \/ \E withPath \in BOOLEAN : StartImport(p, withPath)
    \/ SkipShort(p)
    \/ SkipSynced(p)
    \/ StoreSection(p)
    \/ SaveOpen(p)
    \/ SaveDump(p)
    \/ SkipSave(p)
    \/ Kill(p)
    \/ Return(p)

\* No import run: the markdown file holds its title alone.
IdleImport ==
    /\ InitImport
    /\ doc = <<TitleLine>>

\* ------------------------------------------------------------------ search
\* A text of a query or of a record is a sequence of words.  The words of
\* the model: two lower-case words, a code that starts with a capital, and
\* punctuation.
Words == {"error", "code", "E42", "?!"}

\* What the three patterns of extract_keywords find in one word: its
\* lower-cased \w+ tokens, the word itself when it starts with a capital or
\* a digit and has two characters or more, and its 0x literals.
WordKeywords(w) ==
    CASE w = "error" -> {"error"}
      [] w = "code"  -> {"code"}
      [] w = "E42"   -> {"e42", "E42"}
      [] OTHER       -> {}

extract_keywords(text) == UNION {WordKeywords(text[i]) : i \in DOMAIN text}

Queries  == {<<"error", "code">>, <<"error">>, <<"E42">>, <<"?!">>}
Contents == {<<"error">>, <<"error", "code">>, <<"E42">>}

\* Dense scores and weights, in tenths.
Scores  == {5, 6, 9, 10}
Weights == {<<7, 3>>, <<5, 5>>}

\* What client.search returns for one hit.
Cands == [score : Scores, content : Contents]

Min(a, b) == IF a <= b THEN a ELSE b

\* s[:n] that forgets to cut.
TakeAll(s, n) == s

\* s[:n], for n >= 0
Take(s, n) == SubSeq(s, 1, Min(n, Len(s)))

\* list.sort(key=..., reverse=True) on a list given as <<key, element>>
\* pairs: descending by key, and stable (elements with equal keys keep their
\* order): the pairs of the greatest key in their order, then those of the
\* next key, and so on.
RECURSIVE SortPairs(_, _)
SortPairs(pairs, keys) ==
    IF keys = {} THEN <<>>
    ELSE LET top == CHOOSE k \in keys : \A j \in keys : j <= k
             HasTop(pair) == pair[1] = top
         IN  SelectSeq(pairs, HasTop) \o SortPairs(pairs, keys \ {top})

\* A sort that leaves the list as it is.
Unsorted(pairs) == [i \in DOMAIN pairs |-> pairs[i][2]]

SortDescending(pairs) ==
    LET sorted == SortPairs(pairs, {pairs[i][1] : i \in DOMAIN pairs}) IN
    [i \in DOMAIN pairs |-> sorted[i][2]]

\* An overlap that counts the words of the content that match, not the
\* keywords the two texts share.
KeywordScoreOfWords(query_keywords, content) ==
    IF query_keywords # {}
    THEN <<Cardinality({i \in DOMAIN content :
                           WordKeywords(content[i]) \cap query_keywords # {}}),
           Cardinality(query_keywords)>>
    ELSE <<0, 1>>

\* keyword_score as <<overlap, number of query keywords>>; <<0, 1>> when the
\* query has no keywords.
KeywordScore(query_keywords, content) ==
    IF query_keywords # {}
    THEN <<Cardinality(query_keywords \cap extract_keywords(content)),
           Cardinality(query_keywords)>>
    ELSE <<0, 1>>

\* dense_weight * score + keyword_weight * keyword_score, times 100 and times
\* the denominator of keyword_score, which is the same for every candidate
\* of one search.
Combined(weights, score, keyword_score) ==
    weights[1] * score * keyword_score[2] + weights[2] * 10 * keyword_score[1]

\* The entry of scored_results for the candidate at place pos of
\* dense_results; pos is not a field of the entry, it remembers the place.
Scored(r, pos, query_keywords, weights) ==
    LET ks == KeywordScore(query_keywords, r.content) IN
    [score          |-> r.score,
     content        |-> r.content,
     dense_score    |-> r.score,
     keyword_score  |-> ks,
     combined_score |-> Combined(weights, r.score, ks),
     pos            |-> pos]

\* The rerank, the sort and the cut of hybrid_search.
Rerank(results, query, limit, weights) ==
    LET qk == extract_keywords(query)
        scored == [i \in DOMAIN results |-> Scored(results[i], i, qk, weights)]
        keyed == [i \in DOMAIN scored |->
                     <<scored[i].combined_score, scored[i]>>]
    IN  Take(SortDescending(keyed), limit)

\* limit=limit * 2
SearchLimit(limit) == limit * 2

InitHybrid ==
    /\ h_pc = "idle"
    /\ h_query \in Queries
    /\ h_limit \in 1..MaxLimit
    /\ h_weights \in Weights
    /\ h_asked = 0
    /\ dense_results = <<>>
    /\ h_results = <<>>

IdleHybrid ==
    /\ h_pc = "idle"
    /\ h_query = <<>>
    /\ h_limit = 1
    /\ h_weights = <<7, 3>>
    /\ h_asked = 0
    /\ dense_results = <<>>
    /\ h_results = <<>>

\* dense_results = await client.search(query, limit=limit * 2): the request
HybridSearchCall ==
    /\ h_pc = "idle"
    /\ h_asked' = SearchLimit(h_limit)
    /\ h_pc' = "searching"
    /\ UNCHANGED <<h_query, h_limit, h_weights, dense_results, h_results>>
    /\ UNCHANGED notHybrid

\* The store answers with at most the number of hits asked for, in the order
\* it chooses, and hybrid_search reranks them and returns.
HybridSearchReturn ==
    /\ h_pc = "searching"
    /\ \E hits \in SeqsUpTo(Cands, Min(h_asked, MaxCands)) :
        /\ dense_results' = hits
        /\ h_results' = Rerank(hits, h_query, h_limit, h_weights)
    /\ h_pc' = "done"
    /\ UNCHANGED <<h_query, h_limit, h_weights, h_asked>>
    /\ UNCHANGED notHybrid

\* The embedding request or the search request raises.
HybridSearchFails ==
    /\ h_pc = "searching"
    /\ h_pc' = "failed"
    /\ UNCHANGED <<h_query, h_limit, h_weights, h_asked, dense_results,
                   h_results>>
    /\ UNCHANGED notHybrid

NextHybrid ==
    \/ HybridSearchCall
    \/ HybridSearchReturn
    \/ HybridSearchFails

\* ------------------------------------------------------------------ keyword
\* "limit": 100 of the scroll request
ScrollLimit == 100


\* A record that no query of the model but "E42" matches.
Filler == <<"E42">>

\* The corpora of the model: n records, the first and the last any content,
\* the ones between them the filler.
Corpora ==
    {[i \in 1..n |-> IF i = 1 THEN first ELSE IF i = n THEN last ELSE Filler] :
        n \in 0..MaxCorpus, first \in Contents, last \in Contents}

\* A scroll that pages until the corpus is exhausted.
ScrollAll(records, limit) == records

\* The first page of a scroll over the agent's records: the scroll request
\* carries a limit and no offset.
Scroll(records, limit) == Take(records, limit)

\* The entry of results for the point at place pos; pos is not a field of
\* the entry.
Matched(content, pos, query_keywords) ==
    [content          |-> content,
     keyword_score    |-> KeywordScore(query_keywords, content),
     matched_keywords |-> query_keywords \cap extract_keywords(content),
     pos              |-> pos]

\* The entries for the points of the page whose content shares a keyword
\* with the query, in the order of the page.
Matches(page, query_keywords) ==
    LET all == [i \in DOMAIN page |-> Matched(page[i], i, query_keywords)]
        Hit(m) == query_keywords # {} /\ m.keyword_score[1] > 0
    IN  SelectSeq(all, Hit)

\* The scores of one search have one denominator, so the sort compares the
\* overlaps.
KeywordRank(page, query, limit) ==
    LET results == Matches(page, extract_keywords(query))
        keyed == [i \in DOMAIN results |->
                     <<results[i].keyword_score[1], results[i]>>]
    IN  Take(SortDescending(keyed), limit)

InitKeyword ==
    /\ k_pc = "idle"
    /\ k_query \in Queries
    /\ k_limit \in 1..MaxLimit
    /\ corpus \in Corpora
    /\ k_page = <<>>
    /\ k_results = <<>>

IdleKeyword ==
    /\ k_pc = "idle"
    /\ k_query = <<>>
    /\ k_limit = 1
    /\ corpus = <<>>
    /\ k_page = <<>>
    /\ k_results = <<>>

\* session.post(.../points/scroll, limit 100): the request
KeywordSearchCall ==
    /\ k_pc = "idle"
    /\ k_pc' = "scrolling"
    /\ UNCHANGED <<k_query, k_limit, corpus, k_page, k_results>>
    /\ UNCHANGED notKeyword

\* The store answers with the first page and keyword_only_search scores,
\* sorts, cuts and returns.
KeywordSearchReturn ==
    /\ k_pc = "scrolling"
    /\ k_page' = Scroll(corpus, ScrollLimit)
    /\ k_results' = KeywordRank(k_page', k_query, k_limit)
    /\ k_pc' = "done"
    /\ UNCHANGED <<k_query, k_limit, corpus>>
    /\ UNCHANGED notKeyword

\* The scroll request raises.
KeywordSearchFails ==
    /\ k_pc = "scrolling"
    /\ k_pc' = "failed"
    /\ UNCHANGED <<k_query, k_limit, corpus, k_page, k_results>>
    /\ UNCHANGED notKeyword

NextKeyword ==
    \/ KeywordSearchCall
    \/ KeywordSearchReturn
    \/ KeywordSearchFails

\* ------------------------------------------------------------------ scoring
\* The texts of a query or of a candidate: up to MaxWords words.
Texts == SeqsUpTo(Words, MaxWords)

InitScore ==
    /\ s_pc = "idle"
    /\ s_query \in Texts
    /\ s_content \in Texts
    /\ s_hybrid = <<0, 1>>
    /\ s_keyword = <<>>

IdleScore ==
    /\ s_pc = "idle"
    /\ s_query = <<>>
    /\ s_content = <<>>
    /\ s_hybrid = <<0, 1>>
    /\ s_keyword = <<>>

\* The body of the rerank loop of hybrid_search for a hit with the content.
ScoreInHybrid ==
    /\ s_pc = "idle"
    /\ s_hybrid' = Scored([score |-> 10, content |-> s_content], 1,
                          extract_keywords(s_query), <<7, 3>>).keyword_score
    /\ s_pc' = "hybrid"
    /\ UNCHANGED <<s_query, s_content, s_keyword>>
    /\ UNCHANGED notScore

\* The body of the loop of keyword_only_search for a point with the content.
ScoreInKeywordOnly ==
    /\ s_pc = "hybrid"
    /\ s_keyword' = Matches(<<s_content>>, extract_keywords(s_query))
    /\ s_pc' = "done"
    /\ UNCHANGED <<s_query, s_content, s_hybrid>>
    /\ UNCHANGED notScore

NextScore ==
    \/ ScoreInHybrid
    \/ ScoreInKeywordOnly

\* ------------------------------------------------------------------ ingest
\* A conversation turn is a sequence of words with single spaces between
\* them.  The words of the model: two preference words, one of them with a
\* capital, two action words, one of them with a capital, and three fillers
\* of 12, 13 and 180 characters that hold no preference or action word.
TurnWords == {"prefer", "Need", "created", "Deployed", "pad12", "pad13",
              "pad180"}

\* len(word)
WordLen(w) ==
    CASE w = "prefer"   -> 6
      [] w = "Need"     -> 4
      [] w = "created"  -> 7
      [] w = "Deployed" -> 8
      [] w = "pad12"    -> 12
      [] w = "pad13"    -> 13
      [] w = "pad180"   -> 180

\* word.lower()
Lower(w) ==
    CASE w = "Need"     -> "need"
      [] w = "Deployed" -> "deployed"
      [] OTHER          -> w

PreferenceWords == {"prefer", "want", "need", "important", "remember"}
ActionWords == {"created", "installed", "configured", "deployed"}

Turns == SeqsUpTo(TurnWords, MaxTurnWords)
Roles == {"user", "assistant", "system"}

RECURSIVE SumWordLen(_)
SumWordLen(text) ==
    IF text = <<>> THEN 0 ELSE WordLen(Head(text)) + SumWordLen(Tail(text))

\* len(text): the words and the spaces between them
ContentLen(text) ==
    IF text = <<>> THEN 0 ELSE SumWordLen(text) + (Len(text) - 1)

\* any(w in text.lower() for w in words): a word of the list is a substring
\* of the lower-cased text; of the words of the model, each holds exactly
\* the listed word it is the lower case of.
AnyIn(words, text) == \E i \in DOMAIN text : Lower(text[i]) \in words

\* A bonus for a preference word that does not look at the role.
calculate_importance_any_role(text, role) ==
    LET base == 50
        with_role == IF role = "user" THEN base + 10 ELSE base
        with_pref == IF AnyIn(PreferenceWords, text)
                     THEN with_role + 20 ELSE with_role
        with_action == IF role = "assistant" /\ AnyIn(ActionWords, text)
                       THEN with_pref + 15 ELSE with_pref
        with_len == IF ContentLen(text) > 200
                    THEN with_action + 10 ELSE with_action
    IN  Min(with_len, 100)

\* calculate_importance, in hundredths
calculate_importance(text, role) ==
    LET base == 50
        with_role == IF role = "user" THEN base + 10 ELSE base
        with_pref == IF role = "user" /\ AnyIn(PreferenceWords, text)
                     THEN with_role + 20 ELSE with_role
        with_action == IF role = "assistant" /\ AnyIn(ActionWords, text)
                       THEN with_pref + 15 ELSE with_pref
        with_len == IF ContentLen(text) > 200
                    THEN with_action + 10 ELSE with_action
    IN  Min(with_len, 100)

\* A test that also turns away a turn of exactly 20 characters.
IsVeryShortOrTwenty(content) == ContentLen(content) <= 20

\* len(content) < 20
IsVeryShort(content) == ContentLen(content) < 20

InitIngest ==
    /\ t_pc = "idle"
    /\ t_content \in Turns
    /\ t_role \in Roles
    /\ t_importance = 0
    /\ t_calls = 0
    /\ t_store = <<>>
    /\ t_result = "unset"

IdleIngest ==
    /\ t_pc = "idle"
    /\ t_content = <<>>
    /\ t_role = "user"
    /\ t_importance = 0
    /\ t_calls = 0
    /\ t_store = <<>>
    /\ t_result = "unset"

\* str(uuid4()) of the n-th store call
MemoryId(n) == <<"id", n>>

\* The record of the store call of ingest_turn.  The words of the model
\* hold no mention, URL, code term or common keyword, so extract_entities
\* finds nothing in them.
TurnPoint(content, role, importance, id) ==
    [id          |-> id,
     content     |-> <<role>> \o content,
     memory_type |-> "episodic",
     importance  |-> importance,
     entities    |-> <<>>]

\* ingest_turn up to the store call: the importance is computed, then a
\* very short content is turned away.
IngestTurn ==
    /\ t_pc = "idle"
    /\ t_importance' = calculate_importance(t_content, t_role)
    /\ IF IsVeryShort(t_content)
       THEN /\ t_result' = "None"
            /\ t_pc' = "returned"
            /\ UNCHANGED t_calls
       ELSE /\ t_calls' = t_calls + 1
            /\ t_pc' = "storing"
            /\ UNCHANGED t_result
    /\ UNCHANGED <<t_content, t_role, t_store>>
    /\ UNCHANGED notIngest

\* memory_id = await client.store(...); return memory_id
IngestStored ==
    /\ t_pc = "storing"
    /\ \E outcome \in StoreOutcomes :
        /\ t_store' = IF Persisted(outcome)
                      THEN Append(t_store,
                               TurnPoint(t_content, t_role, t_importance,
                                         MemoryId(t_calls)))
                      ELSE t_store
        /\ IF Raises(outcome)
           THEN /\ t_pc' = "failed"
                /\ UNCHANGED t_result
           ELSE /\ t_pc' = "returned"
                /\ t_result' = MemoryId(t_calls)
    /\ UNCHANGED <<t_content, t_role, t_importance, t_calls>>
    /\ UNCHANGED notIngest

NextIngest ==
    \/ IngestTurn
    \/ IngestStored

\* ------------------------------------------------------------------ export

\* The records a request of the export can return: two contents, either
\* memory type, two importances (in tenths), one tag.
ExportContents == {<<LongLine>>, <<LongLine, ShortLine>>}
Memories ==
    [content : ExportContents, memory_type : {"semantic", "episodic"},
     importance : {5, 8}, entities : {<<"a">>}]

NoGroups == [semantic |-> <<>>, recent |-> <<>>, seen |-> {}]

\* for mem in mems: h = content_hash(...); if h not in seen_hashes: ...
RECURSIVE Dedup(_, _, _)
Dedup(mems, seen, kept) ==
    IF mems = <<>> THEN [kept |-> kept, seen |-> seen]
    ELSE LET h == content_hash(Head(mems).content) IN
         IF h \notin seen
         THEN Dedup(Tail(mems), seen \cup {h}, Append(kept, Head(mems)))
         ELSE Dedup(Tail(mems), seen, kept)

IsEpisodic(mem) == mem.memory_type = "episodic"

\* Two loops that do not share seen_hashes.
OrganizeApart(sem, epi) ==
    LET s == Dedup(sem, {}, <<>>)
        e == Dedup(SelectSeq(epi, IsEpisodic), {}, <<>>)
    IN  [semantic |-> s.kept, recent |-> e.kept, seen |-> s.seen \cup e.seen]

\* The two loops over semantic and episodic, with the one seen_hashes set.
Organize(sem, epi) ==
    LET s == Dedup(sem, {}, <<>>)
        e == Dedup(SelectSeq(epi, IsEpisodic), s.seen, <<>>)
    IN  [semantic |-> s.kept, recent |-> e.kept, seen |-> e.seen]

\* One list entry of the document.  The contents of the model are shorter
\* than the 200 characters an entry is cut to.
Entry(mem) ==
    [importance |-> mem.importance,
     content    |-> mem.content,
     tags       |-> Take(mem.entities, 5)]

\* The sections of the document: a group with no record has no section.
Render(groups) ==
    (IF groups.semantic # <<>>
     THEN <<[section |-> "Semantic Knowledge",
             entries |-> [i \in DOMAIN groups.semantic |->
                             Entry(groups.semantic[i])]]>>
     ELSE <<>>)
    \o
    (IF groups.recent # <<>>
     THEN <<[section |-> "Recent Conversations",
             entries |-> [i \in DOMAIN groups.recent |->
                             Entry(groups.recent[i])]]>>
     ELSE <<>>)

InitExport ==
    /\ x_pc = "idle"
    /\ semantic = <<>>
    /\ episodic = <<>>
    /\ organized = NoGroups
    /\ x_document = <<>>
    /\ x_count = 0

\* The two requests of the export, and their answers.
ExportFetch ==
    /\ x_pc = "idle"
    /\ semantic' \in SeqsUpTo(Memories, MaxRecords)
    /\ episodic' \in SeqsUpTo(Memories, MaxRecords)
    /\ x_pc' = "fetched"
    /\ UNCHANGED <<organized, x_document, x_count>>
    /\ UNCHANGED notExport

\* One of the two requests raises.
ExportFails ==
    /\ x_pc = "idle"
    /\ x_pc' = "failed"
    /\ UNCHANGED <<semantic, episodic, organized, x_document, x_count>>
    /\ UNCHANGED notExport

\* Organize by type, generate the markdown, write the file, return.
ExportWrite ==
    /\ x_pc = "fetched"
    /\ organized' = Organize(semantic, episodic)
    /\ x_document' = Render(organized')
    /\ x_count' = Cardinality(organized'.seen)
    /\ x_pc' = "done"
    /\ UNCHANGED <<semantic, episodic>>
    /\ UNCHANGED notExport

NextExport ==
    \/ ExportFetch
    \/ ExportFails
    \/ ExportWrite

\* Somebody edits the markdown file while import runs are under way.
EditDuringRuns ==
    /\ docVersion < MaxEdits
    /\ 0 < Len(runLog) /\ Len(runLog) < MaxRuns
    /\ \E p \in Procs : pc[p] # "idle"
    /\ \E d \in Edits(doc) : doc' = d
    /\ docVersion' = docVersion + 1
    /\ UNCHANGED <<ledgerFile, points, runLog, pc, rid, usePath, sync_state,
                   sections, idx, stats, calls, err>>
    /\ UNCHANGED notImport

\* ------------------------------------------------------------------ specifications
\* The import runs, one at a time on the ledger path, and the edits of the
\* markdown file between them.
Init ==
    InitImport /\ IdleHybrid /\ IdleKeyword /\ InitExport /\ IdleScore
        /\ IdleIngest

Next ==
    \/ ImportStep("p1")
    \/ EditDocument

Spec == Init /\ [][Next]_vars

\* One hybrid search.
InitOfHybrid ==
    IdleImport /\ InitHybrid /\ IdleKeyword /\ InitExport /\ IdleScore
        /\ IdleIngest
SpecHybrid == InitOfHybrid /\ [][NextHybrid]_vars

\* One keyword-only search.
InitOfKeyword ==
    IdleImport /\ IdleHybrid /\ InitKeyword /\ InitExport /\ IdleScore
        /\ IdleIngest
SpecKeyword == InitOfKeyword /\ [][NextKeyword]_vars

\* One export.
InitOfExport ==
    IdleImport /\ IdleHybrid /\ IdleKeyword /\ InitExport /\ IdleScore
        /\ IdleIngest
SpecExport == InitOfExport /\ [][NextExport]_vars

\* The keyword score of one candidate for one query, in either search.
InitOfScore ==
    IdleImport /\ IdleHybrid /\ IdleKeyword /\ InitExport /\ InitScore
        /\ IdleIngest
SpecScore == InitOfScore /\ [][NextScore]_vars

\* One call of ingest_turn.
InitOfIngest ==
    IdleImport /\ IdleHybrid /\ IdleKeyword /\ InitExport /\ IdleScore
        /\ InitIngest
SpecIngest == InitOfIngest /\ [][NextIngest]_vars

\* Import runs started by two processes on the one markdown file and ledger
\* path, their steps interleaved at every await and file operation.
NextConcurrent ==
    \/ \E p \in Procs : ImportStep(p)
    \/ EditDocument
    \/ EditDuringRuns

SpecConcurrent == Init /\ [][NextConcurrent]_vars

\* ------------------------------------------------------------------ claims
\* The runs that were given the ledger path.
PathRuns == {r \in DOMAIN runLog : runLog[r].path}

\* C1: when an import run with the ledger path has completed on a document,
\* a later run with the ledger path on the same, unedited document reports
\* new = 0, makes no store call and leaves the ledger file with the key set
\* the earlier run left.
C1_ImportIdempotent ==
    \A p \in Procs :
        (pc[p] = "done" /\ usePath[p]) =>
            \A r \in PathRuns :
                (/\ r < rid[p]
                 /\ runLog[r].status = "done"
                 /\ runLog[r].version = runLog[rid[p]].version)
                => /\ stats[p].new = 0
                   /\ calls[p] = 0
                   /\ ledgerFile.st = "complete"
                   /\ DOMAIN ledgerFile.data = runLog[r].keys

\* A second run on the unedited document has completed, and it skipped a
\* section the first run had stored.
C1_Witness ==
    \E p \in Procs :
        /\ pc[p] = "done" /\ usePath[p]
        /\ stats[p].skipped > 0
        /\ \E r \in PathRuns :
            /\ r < rid[p]
            /\ runLog[r].status = "done"
            /\ runLog[r].version = runLog[rid[p]].version
            /\ runLog[r].keys # {}

\* The records created by runs that were given the ledger path.
PathPoints == {i \in DOMAIN points : points[i].run \in PathRuns}
NoFailedRun == \A r \in PathRuns : runLog[r].status # "failed"

\* A run with the ledger path makes a store call for an identity that is a
\* key of the ledger file.
StoresKnownIdentity ==
    \E p \in Procs :
        /\ usePath[p]
        /\ calls'[p] > calls[p]
        /\ content_hash(Text(p)) \in DOMAIN ledgerFile.data

\* C2: over import runs on one ledger path, none of which failed, no store
\* call is made for a section whose content identity is a key of the ledger
\* file, and no content identity has two records created by import.
C2_LedgerInvariant ==
    /\ [][~StoresKnownIdentity]_vars
    /\ [](NoFailedRun =>
            \A i, j \in PathPoints :
                points[i].cid = points[j].cid => i = j)

\* A run on an edited document has skipped a section whose identity the
\* ledger file holds and has stored another section.
C2_Witness ==
    \E p \in Procs :
        /\ pc[p] = "done" /\ usePath[p]
        /\ NoFailedRun
        /\ runLog[rid[p]].version > 0
        /\ stats[p].skipped > 0
        /\ stats[p].new > 0
        /\ Len(points) > 1

\* C3: a section that a failed run on the ledger path has stored gets no
\* second record from a later run on the same document and ledger path.
C3_RerunIsSafe ==
    \A i, j \in PathPoints :
        (/\ i < j
         /\ points[i].cid = points[j].cid
         /\ runLog[points[i].run].status = "failed"
         /\ runLog[points[i].run].version = runLog[points[j].run].version)
        => points[i].run = points[j].run

\* C4: after a run was killed, the ledger file is absent or holds a complete
\* mapping.
C4_CrashLeavesLedgerWhole ==
    \A p \in Procs :
        err[p] = "killed" => ledgerFile.st \in {"absent", "complete"}

\* C5: a run given a ledger path whose file is missing or not parsable goes
\* on with an empty ledger; it does not end with json.load's exception.
C5_BadLedgerIsEmptyLedger ==
    \A p \in Procs : err[p] # "JSONDecodeError"

\* The scaled combined score of an entry, from its own dense_score and
\* keyword_score and the weights of the search.
WeightedSum(r) ==
    h_weights[1] * r.dense_score * r.keyword_score[2]
        + h_weights[2] * 10 * r.keyword_score[1]

\* dense score 0.6 and keyword score 1.0; dense score 0.9 and keyword score 0
HasDense6Keyword1(r) ==
    r.dense_score = 6 /\ r.keyword_score[1] = r.keyword_score[2]
HasDense9Keyword0(r) ==
    r.dense_score = 9 /\ r.keyword_score[1] = 0

\* C6: hybrid_search returns its results in non-increasing order of
\* combined_score, the weighted sum of each candidate's dense score and
\* keyword score; with weights 0.7 and 0.3 a candidate with dense score 0.6
\* and keyword score 1.0 comes before one with dense score 0.9 and keyword
\* score 0.
C6_RankedByCombinedScore ==
    h_pc = "done" =>
        /\ \A i \in DOMAIN h_results :
            /\ h_results[i].dense_score = dense_results[h_results[i].pos].score
            /\ h_results[i].content = dense_results[h_results[i].pos].content
            /\ h_results[i].combined_score = WeightedSum(h_results[i])
        /\ \A i, j \in DOMAIN h_results :
            i < j => WeightedSum(h_results[i]) >= WeightedSum(h_results[j])
        /\ h_weights = <<7, 3>> =>
            \A i, j \in DOMAIN h_results :
                (HasDense6Keyword1(h_results[i]) /\ HasDense9Keyword0(h_results[j]))
                => i < j

\* With weights 0.7 and 0.3 the store returned the 0.9 candidate ahead of the
\* 0.6 candidate, and the result has them the other way round.
C6_Witness ==
    /\ h_pc = "done"
    /\ h_weights = <<7, 3>>
    /\ \E i, j \in DOMAIN h_results :
        /\ i < j
        /\ HasDense6Keyword1(h_results[i])
        /\ HasDense9Keyword0(h_results[j])
        /\ h_results[i].pos > h_results[j].pos

\* C7: of two results with equal combined_score the one with the higher
\* dense score comes first, and two results equal in both are in the order
\* in which the store returned them.
C7_TiesByDenseScoreThenStoreOrder ==
    h_pc = "done" =>
        \A i, j \in DOMAIN h_results :
            (i < j /\ WeightedSum(h_results[i]) = WeightedSum(h_results[j]))
            => \/ h_results[i].dense_score > h_results[j].dense_score
               \/ /\ h_results[i].dense_score = h_results[j].dense_score
                  /\ h_results[i].pos < h_results[j].pos

\* C8: hybrid_search asks the store for 2 x limit candidates and returns
\* min(limit, number of candidates returned) results.
C8_AtMostLimitResults ==
    /\ h_pc # "idle" => h_asked = 2 * h_limit
    /\ h_pc = "done" =>
        Len(h_results) = IF Len(dense_results) < h_limit
                         THEN Len(dense_results) ELSE h_limit

\* The store returned more candidates than the limit, and the result was cut
\* to the limit.
C8_Witness ==
    /\ h_pc = "done"
    /\ Len(dense_results) > h_limit
    /\ Len(h_results) = h_limit

\* The entries of the document, as <<section, place>>.
Rendered ==
    UNION {{<<s, k>> : k \in DOMAIN x_document[s].entries} :
              s \in DOMAIN x_document}
EntryAt(sk) == x_document[sk[1]].entries[sk[2]]
InSection(sk, name) == x_document[sk[1]].section = name

\* C9: in the exported document every content identity is rendered at most
\* once; a content that is both in the semantic result set and, as an
\* episodic record, in the recent set is rendered under Semantic Knowledge
\* only, and it is the first semantic record of that identity that is
\* rendered.
C9_ExportDedup ==
    x_pc = "done" =>
        /\ \A a, b \in Rendered :
            content_hash(EntryAt(a).content) = content_hash(EntryAt(b).content)
            => a = b
        /\ \A i \in DOMAIN semantic :
            /\ \E a \in Rendered :
                /\ InSection(a, "Semantic Knowledge")
                /\ content_hash(EntryAt(a).content)
                       = content_hash(semantic[i].content)
                /\ (\A k \in 1..(i - 1) :
                        content_hash(semantic[k].content)
                            # content_hash(semantic[i].content))
                   => EntryAt(a).importance = semantic[i].importance
            /\ \A a \in Rendered :
                InSection(a, "Recent Conversations")
                => content_hash(EntryAt(a).content)
                       # content_hash(semantic[i].content)

\* A content is in both result sets, the copies differ in importance, and
\* the document has both sections.
C9_Witness ==
    /\ x_pc = "done"
    /\ Len(x_document) = 2
    /\ \E i \in DOMAIN semantic, j \in DOMAIN episodic :
        /\ episodic[j].memory_type = "episodic"
        /\ episodic[j].content = semantic[i].content
        /\ episodic[j].importance # semantic[i].importance

\* The places of the corpus that the result has.
Returned == {k_results[k].pos : k \in DOMAIN k_results}

\* C10: the keyword-only search returns no record without keyword overlap,
\* at most limit records in non-increasing order of keyword score, and
\* leaves out no record of the agent that scores higher than a record it
\* returns.
C10_KeywordSearchScansCorpus ==
    k_pc = "done" =>
        /\ \A k \in DOMAIN k_results : k_results[k].keyword_score[1] > 0
        /\ Len(k_results) <= k_limit
        /\ \A k, l \in DOMAIN k_results :
            k < l => k_results[k].keyword_score[1]
                         >= k_results[l].keyword_score[1]
        /\ \A i \in DOMAIN corpus \ Returned :
            \A k \in DOMAIN k_results :
                KeywordScore(extract_keywords(k_query), corpus[i])[1]
                    <= k_results[k].keyword_score[1]

\* An identity has two records created by runs on the ledger path.
TwoRecordsOfOneIdentity ==
    \E i, j \in PathPoints : i # j /\ points[i].cid = points[j].cid

\* A key that a completed run wrote to the ledger file is not in the file,
\* and no run is in the middle of rewriting the file.
LedgerEntryLost ==
    /\ \A p \in Procs : pc[p] # "dump"
    /\ \E r \in PathRuns :
        /\ runLog[r].status = "done"
        /\ ~(runLog[r].keys \subseteq DOMAIN ledgerFile.data)

\* No run on the ledger path started while another was under way.
OneRunAtATime == \A r \in PathRuns : ~runLog[r].overlap

\* Two runs on the ledger path overlapped, neither failed, and an identity
\* has two records.
C11_InterleavingStoresTwice ==
    /\ ~OneRunAtATime
    /\ NoFailedRun
    /\ TwoRecordsOfOneIdentity

\* Two runs on the ledger path overlapped, neither failed, and the file the
\* second wrote lacks a key the first wrote.
C11_InterleavingLosesEntry ==
    /\ ~OneRunAtATime
    /\ NoFailedRun
    /\ ledgerFile.st = "complete"
    /\ LedgerEntryLost

\* C11: when no import run on the ledger path starts while another is under
\* way, no content identity gets two records and no ledger entry that a
\* completed run wrote is lost.  (Interleaved runs do both, see the two
\* predicates above.)
C11_OneRunAtATimeIsSafe ==
    OneRunAtATime => (~TwoRecordsOfOneIdentity /\ ~LedgerEntryLost)

\* The same for runs none of which failed.
C11_OneCompleteRunAtATimeIsSafe ==
    (OneRunAtATime /\ NoFailedRun) =>
        (~TwoRecordsOfOneIdentity /\ ~LedgerEntryLost)

\* The records that run r created.
PointsOfRun(r) == {i \in DOMAIN points : points[i].run = r}
HasRecord(k) == \E i \in DOMAIN points : points[i].cid = k

\* C12: a run that returns its statistics had every one of its store calls
\* persist a record (a failed call ends the run with an exception), and every
\* key of the ledger, in memory or in the file, is the identity of a record
\* the store holds.
C12_StoreFailureSurfaced ==
    /\ \A p \in Procs :
        pc[p] = "done" => calls[p] = Cardinality(PointsOfRun(rid[p]))
    /\ \A p \in Procs : \A k \in DOMAIN sync_state[p] : HasRecord(k)
    /\ \A k \in DOMAIN ledgerFile.data : HasRecord(k)

\* A score <<numerator, denominator>> is a number from 0 to 1.
InUnitInterval(score) ==
    /\ score[2] > 0
    /\ 0 <= score[1]
    /\ score[1] <= score[2]

\* C13: the keyword_score that hybrid_search and keyword_only_search give a
\* candidate is within [0, 1] for every query and content, and in
\* hybrid_search it is 0 when the query has no keywords.
C13_KeywordScoreInUnitInterval ==
    /\ s_pc \in {"hybrid", "done"} =>
        /\ InUnitInterval(s_hybrid)
        /\ extract_keywords(s_query) = {} => s_hybrid[1] = 0
    /\ s_pc = "done" =>
        \A k \in DOMAIN s_keyword : InUnitInterval(s_keyword[k].keyword_score)

\* Both searches have scored a candidate that shares one of the two keywords
\* of the query and says it twice.
C13_Witness ==
    /\ s_pc = "done"
    /\ Len(s_content) = 2 /\ s_content[1] = s_content[2]
    /\ s_hybrid[1] = 1 /\ s_hybrid[2] = 2
    /\ Len(s_keyword) = 1
    /\ s_keyword[1].keyword_score = s_hybrid

\* The text has a preference word, an action word, in either case of letters.
HasPreferenceWord(text) == \E i \in DOMAIN text : text[i] \in {"prefer", "Need"}
HasActionWord(text) == \E i \in DOMAIN text : text[i] \in {"created", "Deployed"}

\* 0.5, plus 0.1 for role user and a further 0.2 with a preference word, plus
\* 0.15 for role assistant with an action word, plus 0.1 for more than 200
\* characters, in hundredths.
ImportanceSum(text, role) ==
    50 + (IF role = "user" THEN 10 ELSE 0)
       + (IF role = "user" /\ HasPreferenceWord(text) THEN 20 ELSE 0)
       + (IF role = "assistant" /\ HasActionWord(text) THEN 15 ELSE 0)
       + (IF ContentLen(text) > 200 THEN 10 ELSE 0)

\* C14: for every text and role calculate_importance returns a value from
\* 0.5 to 1.0, the sum of the base and the bonuses, and 1.0 if the sum is
\* more.
C14_ImportanceWithinBounds ==
    t_pc # "idle" =>
        /\ 50 <= t_importance /\ t_importance <= 100
        /\ t_importance = IF ImportanceSum(t_content, t_role) > 100
                          THEN 100
                          ELSE ImportanceSum(t_content, t_role)

\* The importance of a turn of role user of 201 characters with a preference
\* word has been computed: 0.9, the greatest sum there is.
C14_Witness ==
    /\ t_pc # "idle"
    /\ t_role = "user"
    /\ ContentLen(t_content) = 201
    /\ HasPreferenceWord(t_content)
    /\ t_importance = 90

\* C15: ingest_turn makes no store call for a content of less than 20
\* characters and returns None, and no record is created; for a content of
\* 20 characters or more it makes exactly one store call, and what it
\* returns is the id of the record of that call.
C15_ShortTurnRejected ==
    /\ ContentLen(t_content) < 20 =>
        /\ t_calls = 0
        /\ t_store = <<>>
        /\ t_pc # "idle" => (t_pc = "returned" /\ t_result = "None")
    /\ (ContentLen(t_content) >= 20 /\ t_pc # "idle") =>
        /\ t_calls = 1
        /\ Len(t_store) <= 1
        /\ \A i \in DOMAIN t_store : t_store[i].id = MemoryId(1)
        /\ t_pc = "returned" => t_result = MemoryId(1)

\* A turn of exactly 20 characters has been stored and its id returned.
C15_Witness ==
    /\ t_pc = "returned"
    /\ ContentLen(t_content) = 20
    /\ Len(t_store) = 1
    /\ t_result = t_store[1].id

\* The stripped body of the i-th section of the run of p, and whether it has
\* the 30 characters.
Body(p, i) == Strip(sections[p][i].content)
Long(p, i) == TextLen(Body(p, i)) >= 30

\* The run of p is in its loop or past it, and has not failed.
Running(p) == pc[p] \in {"loop", "dump", "done"}

\* The sections of 30 characters or more that the loop has dealt with.
LongBefore(p) ==
    {i \in DOMAIN sections[p] : i < idx[p] /\ Long(p, i)}

\* The loop of p is at a section of less than 30 characters.
AtShort(p) ==
    /\ pc[p] = "loop"
    /\ idx[p] \in DOMAIN sections[p]
    /\ ~Long(p, idx[p])

ShortLeftAlone ==
    \A p \in Procs :
        AtShort(p) =>
            /\ stats'[p] = stats[p]
            /\ calls'[p] = calls[p]
            /\ sync_state'[p] = sync_state[p]
            /\ points' = points
            /\ ledgerFile' = ledgerFile

\* C16: a step of a run at a parsed section whose stripped body has less than
\* 30 characters makes no store call and changes neither the ledger nor a
\* counter; so new + skipped is the number of sections of 30 characters or
\* more that the loop has dealt with, and at the end of the run the number
\* of such sections of the document.
C16_ShortSectionsNotCounted ==
    /\ [][ShortLeftAlone]_vars
    /\ [](\A p \in Procs :
            Running(p) =>
                stats[p].new + stats[p].skipped = Cardinality(LongBefore(p)))

\* A run has completed on a document with a short section and a long one.
C16_Witness ==
    \E p \in Procs :
        /\ pc[p] = "done"
        /\ \E i \in DOMAIN sections[p] : ~Long(p, i)
        /\ stats[p].new + stats[p].skipped > 0
        /\ stats[p].new + stats[p].skipped < Len(sections[p])

\* The ledger file as it was when the run of p started.
Before(p) == runLog[rid[p]].before

\* C17: when a run with the ledger path has completed, every key the ledger
\* file had before the run is in the file with the header and the synced_at
\* it had.
C17_LedgerOnlyGrows ==
    \A p \in Procs :
        (pc[p] = "done" /\ usePath[p]) =>
            /\ ledgerFile.st = "complete"
            /\ \A k \in DOMAIN Before(p) :
                /\ k \in DOMAIN ledgerFile.data
                /\ ledgerFile.data[k] = Before(p)[k]

\* A run has completed that found a key in the ledger file and added one.
C17_Witness ==
    \E p \in Procs :
        /\ pc[p] = "done" /\ usePath[p]
        /\ DOMAIN Before(p) # {}
        /\ DOMAIN ledgerFile.data # DOMAIN Before(p)

\* A run without the ledger path starts with an empty ledger.
StartsEmpty ==
    \A p \in Procs :
        (pc[p] = "idle" /\ pc'[p] = "loop" /\ ~usePath'[p])
        => sync_state'[p] = EmptyLedger

\* No step of a run without the ledger path changes the ledger file.
PersistsNothing ==
    \A p \in Procs :
        (pc[p] # "idle" /\ ~usePath[p] /\ pc'[p] # pc[p])
        => ledgerFile' = ledgerFile

\* The earlier completed runs without the ledger path on the document as the
\* run of p read it.
EarlierRunsNoPath(p) ==
    {r \in DOMAIN runLog :
        /\ r < rid[p]
        /\ ~runLog[r].path
        /\ runLog[r].status = "done"
        /\ runLog[r].version = runLog[rid[p]].version}

\* C18: a run without a ledger path starts from an empty ledger and leaves
\* the ledger file alone; when it has completed on the document that an
\* earlier such run completed on, it has made a store call for every
\* identity the earlier run stored and counts as many new sections.
C18_NoPathRunStoresAgain ==
    /\ [][StartsEmpty /\ PersistsNothing]_vars
    /\ [](\A p \in Procs :
            (pc[p] = "done" /\ ~usePath[p]) =>
                \A r \in EarlierRunsNoPath(p) :
                    /\ stats[p].new = runLog[r].stats.new
                    /\ stats[p].skipped = runLog[r].stats.skipped
                    /\ calls[p] = stats[p].new
                    /\ DOMAIN sync_state[p] = runLog[r].keys
                    /\ \A i \in PointsOfRun(r) :
                        points[i].cid \in DOMAIN sync_state[p])

\* The second run without a ledger path has completed, and the store holds
\* two records of one identity, one of each run.
C18_Witness ==
    \E p \in Procs :
        /\ pc[p] = "done" /\ ~usePath[p]
        /\ stats[p].new > 0
        /\ \E r \in EarlierRunsNoPath(p) :
            \E i \in PointsOfRun(r), j \in PointsOfRun(rid[p]) :
                points[i].cid = points[j].cid

\* Of a set of sections of the run of p, the bodies whose identity the
\* ledger did not have when the run started.
NewBodies(p, dealt) ==
    {Body(p, i) : i \in {j \in dealt :
                            content_hash(Body(p, j)) \notin DOMAIN Before(p)}}

\* The first section of the run with the body of section i.
FirstWithBody(p, i) ==
    CHOOSE j \in 1..i :
        /\ Body(p, j) = Body(p, i)
        /\ \A k \in 1..(j - 1) : Body(p, k) # Body(p, i)

\* C19: the identity is that of the stripped body alone: of the sections of
\* one run with one body, whatever their headers, the first alone leads to a
\* store call and a new ledger entry, which has the header of that section,
\* and each later one is counted as skipped.
C19_IdentityOfBodyOnly ==
    \A p \in Procs :
        Running(p) =>
            LET dealt == LongBefore(p)
                first == Cardinality(NewBodies(p, dealt))
            IN  /\ calls[p] = first
                /\ stats[p].new = first
                /\ stats[p].skipped = Cardinality(dealt) - first
                /\ \A i \in dealt :
                    LET h == content_hash(Body(p, i)) IN
                    /\ h \in DOMAIN sync_state[p]
                    /\ h \notin DOMAIN Before(p) =>
                        sync_state[p][h].header
                            = sections[p][FirstWithBody(p, i)].header

\* A run has completed on a document with two sections of one body and two
\* headers: the first was stored, the second skipped.
C19_Witness ==
    \E p \in Procs :
        /\ pc[p] = "done"
        /\ stats[p].new = 1 /\ stats[p].skipped = 1
        /\ \E i, j \in LongBefore(p) :
            /\ i < j
            /\ Body(p, i) = Body(p, j)
            /\ sections[p][i].header # sections[p][j].header
            /\ sync_state[p][content_hash(Body(p, i))].header
                   = sections[p][i].header

====
